---- MODULE Spec2Model ----
(***************************************************************************)
(* Model of app.py: the Streamlit button handler that draws tarot cards,   *)
(* asks Groq for a reading and for the genres of the reading, obtains a    *)
(* Spotify token and searches Spotify for tracks of every genre.           *)
(*                                                                         *)
(* Every HTTP call is two steps: the request is sent (it is appended to    *)
(* log and becomes outstanding) and the response is received (the service  *)
(* answers with any response of the stage's response set and the code up   *)
(* to the next call runs).  Formatted strings are sequences of pieces.     *)
(***************************************************************************)
EXTENDS Integers, Sequences, FiniteSets, TLC

\* ---------------------------------------------------------------- bounds
MaxRuns == 2        \* button clicks per behaviour
MaxCards == 2       \* largest number of cards the slider offers
MaxItems == 4       \* items a search response may carry (more than limit)
MaxContexts == 2    \* entries of CONTEXTS the selectbox offers

\* ---------------------------------------------------- program constants
CONTEXTS == <<"Career", "Love", "Health", "Spirituality",
              "Finances", "Family", "Creativity", "Personal Growth">>
SliderMin == 1
SliderMax == 5
DefaultLimit == 3
ReadingMaxTokens == 512
ExtractMaxTokens == 100

\* ------------------------------------------------------------------ state
VARIABLES
  cfg,          \* GROQ_API_KEY, SPOTIFY_CLIENT_ID, SPOTIFY_CLIENT_SECRET
  run,          \* number of button clicks so far
  pc,           \* position of the script run
  num_cards,    \* slider value
  context,      \* selectbox value
  drawn_cards,  \* result of draw_tarot_cards
  card_names,
  reading,
  genres,       \* result of extract_genres (a Python value)
  token,        \* result of get_spotify_token (0: none)
  gi,           \* search_tracks: index of the genre being searched
  all_tracks,   \* search_tracks: tracks collected so far
  track_occ,    \* for each entry of all_tracks, the iteration that added it
  tracks,       \* result of search_tracks
  ui,           \* elements rendered in this run
  outcome,      \* how the run ended ("" while it runs)
  log,          \* requests and responses of this run, in order
  outstanding   \* positions in log of requests without a response

vars == <<cfg, run, pc, num_cards, context, drawn_cards, card_names, reading,
          genres, token, gi, all_tracks, track_occ, tracks, ui, outcome,
          log, outstanding>>

NONE == "<None>"    \* os.getenv of an unset variable
EnvValues == {NONE, "", "set"}

Min(a, b) == IF a < b THEN a ELSE b

\* ------------------------------------------------------ string helpers
\* sep.join(xs): the pieces of xs with sep between neighbours
RECURSIVE Join(_, _)
Join(sep, xs) ==
  IF Len(xs) = 0 THEN <<>>
  ELSE IF Len(xs) = 1 THEN <<xs[1]>>
  ELSE <<xs[1], sep>> \o Join(sep, Tail(xs))

\* iteration of a Python str yields its characters
Chars(s) ==
  CASE s = "go" -> <<"g", "o">>
    [] s = "lofi" -> <<"l", "o", "f", "i">>
    [] s = "jazz" -> <<"j", "a", "z", "z">>
    [] s = "genres" -> <<"g", "e", "n", "r", "e", "s">>
    [] OTHER -> <<s>>

\* ---------------------------------------------------------- Python values
PyStr(s) == [t |-> "str", s |-> s, items |-> <<>>]
PyInt(s) == [t |-> "int", s |-> s, items |-> <<>>]
PyList(xs) == [t |-> "list", s |-> "", items |-> xs]
\* a dict is kept as the list of its keys (all the code can observe)
PyDict(ks) == [t |-> "dict", s |-> "", items |-> ks]
PyNone == [t |-> "none", s |-> "", items |-> <<>>]

Iterable(v) == v.t \in {"list", "str", "dict"}
\* iter(v): list -> its items, str -> its characters, dict -> its keys
Iter(v) ==
  CASE v.t = "list" -> v.items
    [] v.t = "dict" -> v.items
    [] v.t = "str" -> [i \in 1..Len(Chars(v.s)) |-> PyStr(Chars(v.s)[i])]
    [] OTHER -> <<>>

\* ", ".join(v) raises TypeError unless v is an iterable of str
JoinRaises(v) == ~Iterable(v) \/ \E i \in 1..Len(Iter(v)) : Iter(v)[i].t # "str"
StrsOf(v) == [i \in 1..Len(Iter(v)) |-> Iter(v)[i].s]

\* ------------------------------------------------------------- json.loads
Tok(k, v) == [k |-> k, v |-> v]
LB == Tok("p", "[")
RB == Tok("p", "]")
LC == Tok("p", "{")
RC == Tok("p", "}")
COMMA == Tok("p", ",")
COLON == Tok("p", ":")
WS == Tok("ws", "\n")
S(v) == Tok("str", v)
N(v) == Tok("num", v)
W(v) == Tok("word", v)

\* str.strip(): drop leading and trailing whitespace
RECURSIVE LStrip(_)
LStrip(toks) ==
  IF Len(toks) > 0 /\ toks[1] = WS THEN LStrip(Tail(toks)) ELSE toks
RECURSIVE RStrip(_)
RStrip(toks) ==
  IF Len(toks) > 0 /\ toks[Len(toks)] = WS
  THEN RStrip(SubSeq(toks, 1, Len(toks) - 1)) ELSE toks
Strip(toks) == RStrip(LStrip(toks))

ParseFail == [ok |-> FALSE, val |-> PyNone, next |-> 0]
ParseOk(v, n) == [ok |-> TRUE, val |-> v, next |-> n]

RECURSIVE ParseValue(_, _)
RECURSIVE ParseElems(_, _, _)
RECURSIVE ParseMembers(_, _, _)
\* one JSON value starting at token i
ParseValue(toks, i) ==
  IF i > Len(toks) THEN ParseFail
  ELSE CASE toks[i].k = "str" -> ParseOk(PyStr(toks[i].v), i + 1)
         [] toks[i].k = "num" -> ParseOk(PyInt(toks[i].v), i + 1)
         [] toks[i] = LB ->
              IF i + 1 <= Len(toks) /\ toks[i + 1] = RB
              THEN ParseOk(PyList(<<>>), i + 2)
              ELSE ParseElems(toks, i + 1, <<>>)
         [] toks[i] = LC ->
              IF i + 1 <= Len(toks) /\ toks[i + 1] = RC
              THEN ParseOk(PyDict(<<>>), i + 2)
              ELSE ParseMembers(toks, i + 1, <<>>)
         [] OTHER -> ParseFail
\* the elements of an array after "[" or ","
ParseElems(toks, i, acc) ==
  LET e == ParseValue(toks, i) IN
  IF ~e.ok \/ e.next > Len(toks) THEN ParseFail
  ELSE IF toks[e.next] = RB THEN ParseOk(PyList(Append(acc, e.val)), e.next + 1)
  ELSE IF toks[e.next] = COMMA THEN ParseElems(toks, e.next + 1, Append(acc, e.val))
  ELSE ParseFail
\* the members of an object after "{" or ","
ParseMembers(toks, i, acc) ==
  IF i + 1 > Len(toks) \/ toks[i].k # "str" \/ toks[i + 1] # COLON THEN ParseFail
  ELSE LET e == ParseValue(toks, i + 2) IN
       IF ~e.ok \/ e.next > Len(toks) THEN ParseFail
       ELSE IF toks[e.next] = RC
            THEN ParseOk(PyDict(Append(acc, PyStr(toks[i].v))), e.next + 1)
       ELSE IF toks[e.next] = COMMA
            THEN ParseMembers(toks, e.next + 1, Append(acc, PyStr(toks[i].v)))
       ELSE ParseFail

\* json.loads(raw): one value and nothing after it, else JSONDecodeError
json_loads(toks) ==
  LET e == ParseValue(toks, 1) IN
  IF e.ok /\ e.next = Len(toks) + 1 THEN e ELSE ParseFail


\* ------------------------------------------------------------- HTTP layer
\* a response: status code, whether the body is well-formed JSON (wf),
\* whether the field the caller reads is present (has), and that field
Resp(status, wf, has, val) == [status |-> status, wf |-> wf, has |-> has, val |-> val]

\* variant: the status is never looked at
raise_for_status_Never(r) == r.status < 0

\* resp.raise_for_status(): HTTPError for 4xx and 5xx
raise_for_status(r) == r.status >= 400 /\ r.status < 600

Raise(e) == [exc |-> e]
Return(v) == [exc |-> "", val |-> v]

\* resp.raise_for_status(); return resp.json()[field]
CheckedField(r) ==
  IF raise_for_status(r) THEN Raise("HTTPError")
  ELSE IF ~r.wf THEN Raise("JSONDecodeError")
  ELSE IF ~r.has THEN Raise("KeyError")
  ELSE Return(r.val)

\* ------------------------------------------------------------ card service
CardKeys == {"name", "name_short", "meaning_up", "meaning_rev"}
Card(name, short) == [name |-> name, name_short |-> short, keys |-> CardKeys]
AllCards == <<Card("The Fool", "ar00"), Card("The Magician", "ar01")>>
Deck == {AllCards[i] : i \in DOMAIN AllCards}
\* hands of distinct cards, in any order
Hands == UNION {{h \in [1..n -> Deck] : \A i, j \in 1..n : i # j => h[i] # h[j]}
                : n \in 1..Len(AllCards)}
NamelessCard == [name |-> "", name_short |-> "ar00", keys |-> CardKeys \ {"name"}]

\* the service deals n distinct cards (the whole deck when n is larger);
\* the other responses: a card without name, more cards than asked for,
\* a body without cards, a body that is not JSON, error statuses
DrawResponses ==
  {Resp(200, TRUE, TRUE, h) : h \in {x \in Hands : Len(x) = Min(num_cards, Len(AllCards))}}
  \cup {Resp(200, TRUE, TRUE, <<NamelessCard>>),
        Resp(200, TRUE, TRUE, AllCards \o <<AllCards[1]>>),
        Resp(200, TRUE, FALSE, <<>>),
        Resp(200, FALSE, FALSE, <<>>),
        Resp(500, FALSE, FALSE, <<>>),
        Resp(503, TRUE, TRUE, <<AllCards[1]>>)}

draw_tarot_cards(r) == CheckedField(r)

\* ------------------------------------------------------------ chat service
ReadingTexts == {"reading"}
ReadingResponses ==
  {Resp(200, TRUE, TRUE, t) : t \in ReadingTexts}
  \cup {Resp(200, TRUE, FALSE, ""),
        Resp(200, FALSE, FALSE, ""),
        Resp(401, TRUE, FALSE, ""),
        Resp(503, TRUE, TRUE, "reading")}

P_HEAD == "\nYou are a reflective assistant combining tarot symbolism and music psychology.\nYou do not predict the future. You provide grounded, introspective interpretations.\n\nTarot cards drawn:\n"
P_CONTEXT == "\n\nContext:\n"
P_TASKS == "\n\nTasks:\n1. Interpret the tarot reading\n2. Identify emotional themes\n3. Recommend 3 music genres or styles\n4. Explain why each recommendation fits\n\nRespond clearly and thoughtfully.\n"

\* variant: the cards line is only emitted on the first run of the session
build_prompt_Stateful(cards, ctx) ==
  <<P_HEAD>> \o (IF run > 1 THEN <<>> ELSE Join(", ", cards)) \o <<P_CONTEXT, ctx, P_TASKS>>

build_prompt(cards, ctx) ==
  <<P_HEAD>> \o Join(", ", cards) \o <<P_CONTEXT, ctx, P_TASKS>>

get_tarot_reading(r) == CheckedField(r)

\* model outputs of the extraction call (message content, before strip)
RawContents ==
  {<<LB, RB>>,
   <<LB, S("lofi"), RB>>,
   <<LB, S("lofi"), COMMA, S("jazz"), RB>>,
   <<LB, S("lofi"), COMMA, S("lofi"), RB, WS>>,
   <<W("Here"), LB, S("lofi"), RB>>,
   <<LB, S("lofi"), RB, W("Enjoy")>>,
   <<LB, S("lofi"), COMMA>>,
   <<W("Sorry")>>,
   <<S("go")>>,
   <<N("5")>>,
   <<LB, S("lofi"), COMMA, N("5"), RB>>,
   <<LC, S("genres"), COLON, LB, S("lofi"), RB, RC>>}

ExtractResponses ==
  {Resp(200, TRUE, TRUE, c) : c \in RawContents}
  \cup {Resp(200, TRUE, FALSE, <<>>),
        Resp(200, FALSE, FALSE, <<>>),
        Resp(401, TRUE, FALSE, <<>>),
        Resp(503, TRUE, TRUE, <<LB, S("lofi"), RB>>)}

\* raw = resp.json()[...]["content"].strip(); return json.loads(raw)
extract_genres(r) ==
  LET c == CheckedField(r) IN
  IF c.exc # "" THEN c
  ELSE LET p == json_loads(Strip(c.val)) IN
       IF p.ok THEN Return(p.val) ELSE Raise("JSONDecodeError")


\* --------------------------------------------------------- Spotify service
\* every exchange issues a fresh token: the token granted in run n is n
TokenResponses ==
  {Resp(200, TRUE, TRUE, run),
   Resp(200, TRUE, FALSE, 0),
   Resp(200, FALSE, FALSE, 0),
   Resp(400, TRUE, FALSE, 0),
   Resp(503, TRUE, TRUE, run)}

get_spotify_token(r) == CheckedField(r)

ItemKeys == {"id", "name", "artists", "external_urls"}
\* the k-th track of the catalogue
Item(k) == [id |-> k, name |-> k, artist |-> k, url |-> k, keys |-> ItemKeys]
BrokenItem == [id |-> 1, name |-> 1, artist |-> 1, url |-> 0, keys |-> ItemKeys \ {"external_urls"}]
Catalogue(k) == [i \in 1..k |-> Item(i)]

\* has: the body has tracks.items; an error body ({"error": ...}) has not
SearchResponses ==
  {Resp(200, TRUE, TRUE, Catalogue(k)) : k \in 0..MaxItems}
  \cup {Resp(200, TRUE, TRUE, <<BrokenItem>>),
        Resp(401, TRUE, FALSE, <<>>),
        Resp(200, FALSE, FALSE, <<>>)}

\* resp.json().get("tracks", {}).get("items", [])
SearchItems(r) ==
  IF ~r.wf THEN Raise("JSONDecodeError")
  ELSE IF ~r.has THEN Return(<<>>)
  ELSE Return(r.val)

\* params of the two queries of a genre
\* variant: the first token ever issued is kept and sent with every search
search_headers_Cached(tok) == [scheme |-> "Bearer", token |-> 1]

search_headers(tok) == [scheme |-> "Bearer", token |-> tok]
FilteredQ(genre) == <<"genre:", genre>>
UnfilteredQ(genre) == <<genre>>
\* variant: the limit parameter is left to the service's default
search_params_NoLimit(q, limit) == [q |-> q, type |-> "track", limit |-> 20]

search_params(q, limit) == [q |-> q, type |-> "track", limit |-> limit]

\* variant: the unfiltered query is never tried
NeedFallback_Never(items) == Len(items) < 0

\* `if not tracks`
NeedFallback(items) == Len(items) = 0

TrackOf(t, genre) ==
  [id |-> t.id, name |-> t.name, artist |-> t.artist, genre |-> genre, url |-> t.url]
\* variant: a track already collected is not collected again
AppendTracks_Dedup(all, items, genre) ==
  IF \E i \in 1..Len(items) : ~(ItemKeys \subseteq items[i].keys)
  THEN Raise("KeyError")
  ELSE LET IsNew(t) == \A k \in 1..Len(all) : all[k].id # t.id
       IN Return(all \o [i \in 1..Len(SelectSeq(items, IsNew)) |->
                           TrackOf(SelectSeq(items, IsNew)[i], genre)])

\* for t in tracks: all_tracks.append({...})
AppendTracks(all, items, genre) ==
  IF \E i \in 1..Len(items) : ~(ItemKeys \subseteq items[i].keys)
  THEN Raise("KeyError")
  ELSE Return(all \o [i \in 1..Len(items) |-> TrackOf(items[i], genre)])


\* ---------------------------------------------------------------- handler
ConfigKeys == <<"GROQ_API_KEY", "SPOTIFY_CLIENT_ID", "SPOTIFY_CLIENT_SECRET">>
Contexts == {CONTEXTS[i] : i \in 1..Min(MaxContexts, Len(CONTEXTS))}
SliderValues == SliderMin..Min(SliderMax, MaxCards)

\* variant: only an unset variable counts as missing
Falsy_NoneOnly(v) == v = NONE

\* `not value`: None or the empty string
Falsy(v) == v = NONE \/ v = ""

\* the `missing` list of the handler
Missing(c) ==
  LET IsMissing(k) == Falsy(c[k]) IN SelectSeq(ConfigKeys, IsMissing)

NoResp == Resp(0, FALSE, FALSE, <<>>)
ReqEv(stage, payload) == [ev |-> "req", stage |-> stage, payload |-> payload, resp |-> NoResp]
RespEv(stage, r) == [ev |-> "resp", stage |-> stage, payload |-> <<>>, resp |-> r]

\* rendered elements
El(kind, text) == [kind |-> kind, text |-> text]
MSG_MISSING == "Missing environment variables: "
MSG_MISSING_END == ". Add them to your .env file."
MSG_DRAW == "Error fetching tarot cards: "
MSG_READING == "Error getting tarot reading: "
MSG_EXTRACT == "Error extracting genres: "
MSG_SPOTIFY == "Error searching Spotify: "
MSG_NO_TRACKS == "No tracks found on Spotify for the recommended genres."

locals == <<drawn_cards, card_names, reading, genres, token, gi, all_tracks,
            track_occ, tracks>>
inputs == <<cfg, run, num_cards, context>>

Init ==
  /\ cfg \in [{ConfigKeys[i] : i \in 1..3} -> EnvValues]
  /\ run = 0
  /\ pc = "idle"
  /\ num_cards = 2
  /\ context = CONTEXTS[1]
  /\ drawn_cards = <<>>
  /\ card_names = <<>>
  /\ reading = ""
  /\ genres = PyNone
  /\ token = 0
  /\ gi = 0
  /\ all_tracks = <<>>
  /\ track_occ = <<>>
  /\ tracks = <<>>
  /\ ui = <<>>
  /\ outcome = ""
  /\ log = <<>>
  /\ outstanding = {}

\* st.error(...); st.stop() in an except clause
StageError(msg, exc) ==
  /\ pc' = "stopped"
  /\ ui' = Append(ui, El("error", <<msg, exc>>))
  /\ outcome' = "stage_error"

\* an exception outside every try: Streamlit shows it and the run ends
Uncaught(shown, exc) ==
  /\ pc' = "stopped"
  /\ ui' = Append(shown, El("exception", <<exc>>))
  /\ outcome' = "uncaught"

\* requests.get / requests.post: the request leaves
Send(stage, payload, wait) ==
  /\ log' = Append(log, ReqEv(stage, payload))
  /\ outstanding' = outstanding \cup {Len(log) + 1}
  /\ pc' = wait
  /\ UNCHANGED <<inputs, locals, ui, outcome>>

\* the blocked call returns with response r
Receive(stage, r) ==
  /\ log' = Append(log, RespEv(stage, r))
  /\ outstanding' = outstanding \ {Len(log)}

\* the button is pressed: a fresh script run, lines 175-187
Click(n, c) ==
  /\ pc \in {"idle", "stopped"}
  /\ run < MaxRuns
  /\ run' = run + 1
  /\ num_cards' = n
  /\ context' = c
  /\ drawn_cards' = <<>>
  /\ card_names' = <<>>
  /\ reading' = ""
  /\ genres' = PyNone
  /\ token' = 0
  /\ gi' = 0
  /\ all_tracks' = <<>>
  /\ track_occ' = <<>>
  /\ tracks' = <<>>
  /\ log' = <<>>
  /\ outstanding' = {}
  /\ IF Len(Missing(cfg)) > 0
     THEN /\ ui' = <<El("error", <<MSG_MISSING>> \o Join(", ", Missing(cfg))
                                  \o <<MSG_MISSING_END>>)>>
          /\ pc' = "stopped"
          /\ outcome' = "config_error"
     ELSE /\ ui' = <<>>
          /\ pc' = "draw"
          /\ outcome' = ""
  /\ UNCHANGED cfg

\* draw_tarot_cards, line 30
SendDraw ==
  /\ pc = "draw"
  /\ Send("draw", [n |-> num_cards], "draw_wait")

\* the card c renders (lines 204-207) only with all its keys
CardRenders(c) == CardKeys \subseteq c.keys

\* lines 31-32 and 192-207
RecvDraw(r) ==
  /\ pc = "draw_wait"
  /\ Receive("draw", r)
  /\ LET res == draw_tarot_cards(r) IN
     IF res.exc # ""
     THEN /\ StageError(MSG_DRAW, res.exc)
          /\ UNCHANGED <<inputs, locals>>
     ELSE /\ drawn_cards' = res.val
          /\ IF \E i \in 1..Len(res.val) : "name" \notin res.val[i].keys
             THEN /\ Uncaught(ui, "KeyError")
                  /\ UNCHANGED card_names
             ELSE /\ card_names' = [i \in 1..Len(res.val) |-> res.val[i].name]
                  /\ LET shown == Min(Len(res.val), num_cards)
                         imgs == [i \in 1..shown |-> El("image", <<res.val[i].name_short, res.val[i].name>>)]
                         page == Append(ui, El("subheader", <<"Your Cards">>)) \o imgs
                     IN IF Len(res.val) > num_cards
                        THEN Uncaught(page, "IndexError")
                        ELSE /\ pc' = "reading"
                             /\ ui' = page
                             /\ outcome' = ""
          /\ UNCHANGED <<inputs, reading, genres, token, gi, all_tracks,
                         track_occ, tracks>>

\* get_tarot_reading, lines 59-70
SendReading ==
  /\ pc = "reading"
  /\ Send("reading",
          [auth |-> cfg["GROQ_API_KEY"], prompt |-> build_prompt(card_names, context),
           max_tokens |-> ReadingMaxTokens],
          "reading_wait")

\* lines 71-72 and 212-218
RecvReading(r) ==
  /\ pc = "reading_wait"
  /\ Receive("reading", r)
  /\ LET res == get_tarot_reading(r) IN
     IF res.exc # ""
     THEN /\ StageError(MSG_READING, res.exc)
          /\ UNCHANGED <<inputs, locals>>
     ELSE /\ reading' = res.val
          /\ ui' = ui \o <<El("subheader", <<"Your Reading">>), El("markdown", <<res.val>>)>>
          /\ pc' = "extract"
          /\ outcome' = ""
          /\ UNCHANGED <<inputs, drawn_cards, card_names, genres, token, gi,
                         all_tracks, track_occ, tracks>>

P_EXTRACT == "From the following text, extract ONLY the music genre/style names as a JSON list of strings. Return ONLY the JSON array, nothing else.\n\n"

\* extract_genres, lines 77-96
SendExtract ==
  /\ pc = "extract"
  /\ Send("extract",
          [auth |-> cfg["GROQ_API_KEY"], prompt |-> <<P_EXTRACT, reading>>,
           max_tokens |-> ExtractMaxTokens],
          "extract_wait")

\* lines 97-99 and 223-229
RecvExtract(r) ==
  /\ pc = "extract_wait"
  /\ Receive("extract", r)
  /\ LET res == extract_genres(r) IN
     IF res.exc # ""
     THEN /\ StageError(MSG_EXTRACT, res.exc)
          /\ UNCHANGED <<inputs, locals>>
     ELSE /\ genres' = res.val
          /\ LET page == Append(ui, El("subheader", <<"Recommended Genres">>)) IN
             IF JoinRaises(res.val)
             THEN Uncaught(page, "TypeError")
             ELSE /\ ui' = Append(page, El("write", Join(", ", StrsOf(res.val))))
                  /\ pc' = "token"
                  /\ outcome' = ""
          /\ UNCHANGED <<inputs, drawn_cards, card_names, reading, token, gi,
                         all_tracks, track_occ, tracks>>


\* get_spotify_token, lines 104-111
SendToken ==
  /\ pc = "token"
  /\ Send("token",
          [grant_type |-> "client_credentials",
           client_id |-> cfg["SPOTIFY_CLIENT_ID"],
           client_secret |-> cfg["SPOTIFY_CLIENT_SECRET"]],
          "token_wait")

\* the genres search_tracks iterates over
GenreSeq == StrsOf(genres)

\* lines 112-113, 234 and the entry of search_tracks, lines 118-122
RecvToken(r) ==
  /\ pc = "token_wait"
  /\ Receive("token", r)
  /\ LET res == get_spotify_token(r) IN
     IF res.exc # ""
     THEN /\ StageError(MSG_SPOTIFY, res.exc)
          /\ UNCHANGED <<inputs, locals>>
     ELSE /\ token' = res.val
          /\ all_tracks' = <<>>
          /\ track_occ' = <<>>
          /\ tracks' = <<>>
          /\ IF Len(GenreSeq) > 0
             THEN gi' = 1 /\ pc' = "search_filtered"
             ELSE gi' = 0 /\ pc' = "render"
          /\ UNCHANGED <<inputs, drawn_cards, card_names, reading, genres, ui, outcome>>

\* search_tracks, lines 123-124
SendFiltered ==
  /\ pc = "search_filtered"
  /\ Send("search",
          [headers |-> search_headers(token),
           params |-> search_params(FilteredQ(GenreSeq[gi]), DefaultLimit),
           gi |-> gi],
          "search_filtered_wait")

\* lines 132-142: the tracks of the genre are appended, then the next
\* genre is searched or search_tracks returns
Collect(items) ==
  LET res == AppendTracks(all_tracks, items, GenreSeq[gi]) IN
  IF res.exc # ""
  THEN /\ StageError(MSG_SPOTIFY, res.exc)
       /\ UNCHANGED <<inputs, locals>>
  ELSE /\ all_tracks' = res.val
       /\ track_occ' = track_occ \o [i \in 1..(Len(res.val) - Len(all_tracks)) |-> gi]
       /\ IF gi < Len(GenreSeq)
          THEN gi' = gi + 1 /\ pc' = "search_filtered" /\ UNCHANGED tracks
          ELSE pc' = "render" /\ tracks' = res.val /\ UNCHANGED gi
       /\ UNCHANGED <<inputs, drawn_cards, card_names, reading, genres, token,
                      ui, outcome>>

\* lines 125-127
RecvFiltered(r) ==
  /\ pc = "search_filtered_wait"
  /\ Receive("search", r)
  /\ LET it == SearchItems(r) IN
     IF it.exc # ""
     THEN /\ StageError(MSG_SPOTIFY, it.exc)
          /\ UNCHANGED <<inputs, locals>>
     ELSE IF NeedFallback(it.val)
     THEN /\ pc' = "search_unfiltered"
          /\ UNCHANGED <<inputs, locals, ui, outcome>>
     ELSE Collect(it.val)

\* lines 128-129
SendUnfiltered ==
  /\ pc = "search_unfiltered"
  /\ Send("search",
          [headers |-> search_headers(token),
           params |-> search_params(UnfilteredQ(GenreSeq[gi]), DefaultLimit),
           gi |-> gi],
          "search_unfiltered_wait")

\* line 130
RecvUnfiltered(r) ==
  /\ pc = "search_unfiltered_wait"
  /\ Receive("search", r)
  /\ LET it == SearchItems(r) IN
     IF it.exc # ""
     THEN /\ StageError(MSG_SPOTIFY, it.exc)
          /\ UNCHANGED <<inputs, locals>>
     ELSE Collect(it.val)

\* lines 240-252
Render ==
  /\ pc = "render"
  /\ pc' = "stopped"
  /\ IF Len(tracks) > 0
     THEN /\ ui' = Append(ui, El("subheader", <<"Listen Now">>))
                   \o [i \in 1..Len(tracks) |-> El("track", <<tracks[i].genre>>)]
          /\ outcome' = "tracks"
     ELSE /\ ui' = Append(ui, El("warning", <<MSG_NO_TRACKS>>))
          /\ outcome' = "no_tracks"
  /\ UNCHANGED <<inputs, locals, log, outstanding>>

Next ==
  \/ \E n \in SliderValues, c \in Contexts : Click(n, c)
  \/ SendDraw
  \/ \E r \in DrawResponses : RecvDraw(r)
  \/ SendReading
  \/ \E r \in ReadingResponses : RecvReading(r)
  \/ SendExtract
  \/ \E r \in ExtractResponses : RecvExtract(r)
  \/ SendToken
  \/ \E r \in TokenResponses : RecvToken(r)
  \/ SendFiltered
  \/ \E r \in SearchResponses : RecvFiltered(r)
  \/ SendUnfiltered
  \/ \E r \in SearchResponses : RecvUnfiltered(r)
  \/ Render

Spec == Init /\ [][Next]_vars

TypeOK ==
  /\ pc \in {"idle", "draw", "draw_wait", "reading", "reading_wait", "extract",
             "extract_wait", "token", "token_wait", "search_filtered",
             "search_filtered_wait", "search_unfiltered",
             "search_unfiltered_wait", "render", "stopped"}
  /\ outcome \in {"", "config_error", "stage_error", "uncaught", "tracks", "no_tracks"}
  /\ run \in 0..MaxRuns


\* ===================================================================
\* Properties
\* ===================================================================
SetMin(xs) == CHOOSE x \in xs : \A y \in xs : x <= y
SetMax(xs) == CHOOSE x \in xs : \A y \in xs : y <= x
StageNo(stage) ==
  CASE stage = "draw" -> 1 [] stage = "reading" -> 2 [] stage = "extract" -> 3
    [] stage = "token" -> 4 [] stage = "search" -> 5
StageMsg(stage) ==
  CASE stage = "draw" -> MSG_DRAW [] stage = "reading" -> MSG_READING
    [] stage = "extract" -> MSG_EXTRACT [] stage = "token" -> MSG_SPOTIFY
    [] stage = "search" -> MSG_SPOTIFY
ReqIdx == {i \in DOMAIN log : log[i].ev = "req"}
RespIdx == {i \in DOMAIN log : log[i].ev = "resp"}
StageReqs(stage) == {i \in ReqIdx : log[i].stage = stage}
\* a response that is an HTTP error, not JSON, or lacks the field read
FailedResp(r) == (r.status >= 400 /\ r.status < 600) \/ ~r.wf \/ ~r.has
\* the stage has succeeded: its response is none of those and, for the
\* extraction, its content is JSON
StageSucceeded(stage, r) ==
  /\ ~FailedResp(r)
  /\ stage = "extract" => json_loads(Strip(r.val)).ok
ConfigMissing == {k \in {ConfigKeys[i] : i \in 1..3} : cfg[k] = NONE \/ cfg[k] = ""}
Occurrences(x, seq) == Cardinality({i \in DOMAIN seq : seq[i] = x})

\* C1: a click with a required configuration value absent or empty ends
\* the run with one error message that lists exactly the missing values,
\* and no request is made in that run.
C1_MissingConfigAborts ==
  (run > 0 /\ ConfigMissing # {}) =>
    /\ pc = "stopped"
    /\ outcome = "config_error"
    /\ Len(ui) = 1
    /\ ui[1].kind = "error"
    /\ ui[1].text[1] = MSG_MISSING
    /\ \A i \in 1..3 :
         Occurrences(ConfigKeys[i], ui[1].text)
           = IF ConfigKeys[i] \in ConfigMissing THEN 1 ELSE 0
    /\ log = <<>>
    /\ outstanding = {}

C1_Witness ==
  /\ run > 0
  /\ cfg["GROQ_API_KEY"] = NONE
  /\ cfg["SPOTIFY_CLIENT_ID"] = ""
  /\ cfg["SPOTIFY_CLIENT_SECRET"] = "set"
  /\ outcome = "config_error"
  /\ ui[1].text = <<MSG_MISSING, "GROQ_API_KEY", ", ", "SPOTIFY_CLIENT_ID", MSG_MISSING_END>>

\* C2 (as claimed): every failed response - HTTP error status, malformed
\* JSON body, missing field - is the last event of its run, and the run has
\* stopped with the error message of that response's stage as the last
\* element rendered.
C2_EveryFailureHalts ==
  \A i \in RespIdx :
    FailedResp(log[i].resp) =>
      /\ i = Len(log)
      /\ pc = "stopped"
      /\ outcome = "stage_error"
      /\ ui[Len(ui)].kind = "error"
      /\ ui[Len(ui)].text[1] = StageMsg(log[i].stage)

\* C3: requests are issued in stage order, one at a time; each of the
\* first four stages sends at most one request per run; a request is sent
\* only after every earlier stage of the run has succeeded.
C3_StraightLine ==
  LET reqs == ReqIdx
      resps == RespIdx
  IN /\ Cardinality(outstanding) <= 1
     /\ outstanding \subseteq {Len(log)}
     /\ \A i \in reqs : i = 1 \/ log[i - 1].ev = "resp"
     /\ \A i, j \in reqs :
          i < j => /\ StageNo(log[i].stage) <= StageNo(log[j].stage)
                   /\ StageNo(log[i].stage) <= 4 => log[i].stage # log[j].stage
     /\ \A s \in {"draw", "reading", "extract", "token"} :
          LET later == {j \in reqs : StageNo(s) < StageNo(log[j].stage)} IN
          later # {} =>
            \E i \in resps :
              /\ i < SetMin(later)
              /\ log[i].stage = s
              /\ StageSucceeded(s, log[i].resp)

C3_Witness ==
  /\ outcome = "tracks"
  /\ Cardinality(StageReqs("search")) = 4
  /\ Cardinality(ReqIdx) = 8


\* ------------------------------------------------- search_tracks, by log
\* the search requests of iteration i of the genre loop
IterReqs(i) == {j \in StageReqs("search") : log[j].payload.gi = i}
\* the items a search response returned (none without tracks.items)
ItemsOf(r) == IF r.wf /\ r.has THEN r.val ELSE <<>>
\* search_tracks has returned
Returned == pc = "render" \/ outcome \in {"tracks", "no_tracks"}
\* iteration i has run to its end
Done(i) == i >= 1 /\ (i < gi \/ (i = gi /\ Returned))
NDone == IF gi = 0 THEN 0 ELSE IF Returned THEN gi ELSE gi - 1
\* the entries of all_tracks that iteration i added
OccIdx(i) == {k \in DOMAIN all_tracks : track_occ[k] = i}
Recorded(i) ==
  IF OccIdx(i) = {} THEN <<>>
  ELSE SubSeq(all_tracks, SetMin(OccIdx(i)), SetMax(OccIdx(i)))
Tagged(items, g) ==
  [k \in 1..Len(items) |->
     [id |-> items[k].id, name |-> items[k].name, artist |-> items[k].artist,
      genre |-> g, url |-> items[k].url]]
\* the items of the last response of iteration i
Used(i) == ItemsOf(log[SetMax(IterReqs(i)) + 1].resp)
RECURSIVE ConcatUsed(_)
ConcatUsed(n) ==
  IF n = 0 THEN <<>> ELSE ConcatUsed(n - 1) \o Tagged(Used(n), GenreSeq[n])
RECURSIVE SumUsed(_)
SumUsed(n) == IF n = 0 THEN 0 ELSE SumUsed(n - 1) + Len(Used(n))

\* C4: for every genre the query "genre:<genre>" is sent first; the query
\* "<genre>" (same type and limit) is sent if and only if the filtered
\* query returned no items; the tracks recorded for the genre are the
\* filtered items when there are any and otherwise the unfiltered items.
C4_FilteredThenFallback ==
  \A i \in 1..Len(GenreSeq) :
    IterReqs(i) # {} =>
      LET f == SetMin(IterReqs(i))
          first == log[f].payload.params
          filtered == ItemsOf(log[f + 1].resp)
      IN /\ first.q = <<"genre:", GenreSeq[i]>>
         /\ first.type = "track"
         /\ Cardinality(IterReqs(i)) <= 2
         /\ \A u \in IterReqs(i) \ {f} :
              /\ u = f + 2
              /\ filtered = <<>>
              /\ log[u].payload.params = [first EXCEPT !.q = <<GenreSeq[i]>>]
         /\ Done(i) =>
              /\ (filtered = <<>>) <=> (IterReqs(i) = {f, f + 2})
              /\ Recorded(i) =
                   Tagged(IF filtered # <<>> THEN filtered
                          ELSE ItemsOf(log[f + 3].resp), GenreSeq[i])

C4_Witness ==
  \E i \in 1..Len(GenreSeq) :
    /\ Done(i)
    /\ Cardinality(IterReqs(i)) = 2
    /\ ItemsOf(log[SetMin(IterReqs(i)) + 1].resp) = <<>>
    /\ Len(ItemsOf(log[SetMin(IterReqs(i)) + 3].resp)) = 1
    /\ Len(Recorded(i)) = 1
    /\ outcome = "tracks"

\* C5: the track list is the concatenation, in genre order, of the
\* per-genre results in service order, every entry tagged with its genre;
\* nothing is deduplicated and the length is the sum of the result lengths.
C5_Concatenation ==
  /\ all_tracks = ConcatUsed(NDone)
  /\ Len(all_tracks) = SumUsed(NDone)
  /\ \A k \in DOMAIN all_tracks : all_tracks[k].genre = GenreSeq[track_occ[k]]
  /\ \A k \in 1..(Len(all_tracks) - 1) : track_occ[k] <= track_occ[k + 1]
  /\ Returned => tracks = all_tracks
  /\ outcome = "tracks" =>
       Len(SelectSeq(ui, LAMBDA e : e.kind = "track")) = SumUsed(NDone)

C5_Witness ==
  /\ outcome = "tracks"
  /\ Len(GenreSeq) = 2
  /\ GenreSeq[1] = GenreSeq[2]
  /\ Len(Used(1)) = 2
  /\ Len(tracks) = 4
  /\ tracks[1] = tracks[3]

\* the tracks tagged with genre occurrence i
Count(i) == Cardinality(OccIdx(i))

\* C6 (as claimed): every genre occurrence contributes at most limit (3)
\* tracks, whatever the search responses carry.
C6_AtMostLimit == \A i \in 1..Len(GenreSeq) : Count(i) <= DefaultLimit

\* C6 (amended): every search request asks for limit = 3, a genre
\* occurrence contributes exactly the items of the response used for it,
\* hence at most 3 when the responses of that genre carry at most 3 items.
C6_LimitRequested ==
  /\ \A j \in StageReqs("search") : log[j].payload.params.limit = 3
  /\ \A i \in 1..NDone : Count(i) = Len(Used(i))
  /\ \A i \in 1..Len(GenreSeq) :
       (\A j \in IterReqs(i) :
          j + 1 <= Len(log) => Len(ItemsOf(log[j + 1].resp)) <= 3)
       => Count(i) <= 3

C6_Witness ==
  /\ outcome = "tracks"
  /\ \E i \in 1..Len(GenreSeq) : Count(i) = 4 /\ Len(Used(i)) = 4
  /\ \E i \in 1..Len(GenreSeq) : Count(i) = 3


\* the content is, after strip, a JSON array whose elements are strings
IsArrayOfStrings(raw) ==
  LET p == json_loads(Strip(raw)) IN
  /\ p.ok
  /\ p.val.t = "list"
  /\ \A k \in 1..Len(p.val.items) : p.val.items[k].t = "str"

\* C7 (as claimed): a delivered extraction response whose content is a
\* JSON array of strings yields exactly that list; any other content
\* ends the run at that response with the genre-extraction error, so no
\* token exchange and no track search follows.
C7_ArrayOrFail ==
  \A i \in RespIdx :
    (log[i].stage = "extract" /\ ~FailedResp(log[i].resp)) =>
      IF IsArrayOfStrings(log[i].resp.val)
      THEN /\ genres = json_loads(Strip(log[i].resp.val)).val
           /\ ~(i = Len(log) /\ outcome = "stage_error")
      ELSE /\ i = Len(log)
           /\ outcome = "stage_error"
           /\ ui[Len(ui)] = El("error", <<MSG_EXTRACT, "JSONDecodeError">>)
           /\ StageReqs("token") = {}
           /\ StageReqs("search") = {}

\* the genre list has been rendered: the run is at the music stage
GenresWritten == \E k \in DOMAIN ui : ui[k].kind = "write"

\* C8: a run at the music stage makes exactly one token exchange, before
\* any search; every search request carries the token of that exchange,
\* and never a token granted in an earlier run (tokens 1..run-1).
C8_OneShotToken ==
  /\ Cardinality(StageReqs("token")) <= 1
  /\ (GenresWritten /\ pc # "token") => Cardinality(StageReqs("token")) = 1
  /\ StageReqs("token") # {} => GenresWritten
  /\ \A j \in StageReqs("search") :
       \E t \in StageReqs("token") :
         /\ t + 1 < j
         /\ log[t + 1].ev = "resp"
         /\ ~FailedResp(log[t + 1].resp)
         /\ log[j].payload.headers = [scheme |-> "Bearer", token |-> log[t + 1].resp.val]
         /\ log[j].payload.headers.token \notin 1..(run - 1)

C8_Witness ==
  /\ run = 2
  /\ Cardinality(StageReqs("search")) >= 2
  /\ \A j \in StageReqs("search") : log[j].payload.headers.token = 2

\* C9: in every run the prompt of the reading request is the template
\* filled with the names of the cards the draw returned, in draw order
\* and joined by ", ", and with the selected context: it depends on
\* nothing but these, whatever happened in earlier runs.
C9_PromptFromDraw ==
  \A j \in StageReqs("reading") :
    \E d \in RespIdx :
      /\ d < j
      /\ log[d].stage = "draw"
      /\ LET cards == log[d].resp.val
             n == Len(cards)
             p == log[j].payload.prompt
         IN /\ Len(p) = 2 * n + 3
            /\ p[1] = P_HEAD
            /\ \A k \in 1..n : p[2 * k] = cards[k].name
            /\ \A k \in 1..(n - 1) : p[2 * k + 1] = ", "
            /\ p[2 * n + 1] = P_CONTEXT
            /\ p[2 * n + 2] = context
            /\ p[2 * n + 3] = P_TASKS

C9_Witness ==
  /\ run = 2
  /\ context = "Love"
  /\ \E j \in StageReqs("reading") :
       log[j].payload.prompt =
         <<P_HEAD, "The Magician", ", ", "The Fool", P_CONTEXT, "Love", P_TASKS>>

\* C10 (as claimed): a run that has ended shows exactly one terminal
\* outcome - configuration error, one stage error, the track list or the
\* no-tracks warning - after at most 1 card-draw, 2 chat, 1 token and 2
\* search requests per genre; with no genre or no track found it has
\* acquired a token and ends with the warning.
C10_OneTerminalOutcome ==
  (pc = "stopped" /\ run > 0) =>
    /\ outcome \in {"config_error", "stage_error", "tracks", "no_tracks"}
    /\ Cardinality({k \in DOMAIN ui :
                      ui[k].kind \in {"error", "warning", "exception"}
                      \/ ui[k] = El("subheader", <<"Listen Now">>)}) = 1
    /\ Cardinality(StageReqs("draw")) <= 1
    /\ Cardinality(StageReqs("reading")) + Cardinality(StageReqs("extract")) <= 2
    /\ Cardinality(StageReqs("token")) <= 1
    /\ \A i \in 1..Len(GenreSeq) : Cardinality(IterReqs(i)) <= 2
    /\ Cardinality(StageReqs("search")) <= 2 * Len(GenreSeq)
    /\ (outcome \in {"tracks", "no_tracks"} /\ all_tracks = <<>>) =>
         (outcome = "no_tracks" /\ token # 0)

====
